---- MODULE Spec2Model ----
(***************************************************************************)
(* Deployment orchestration of the ViFlow manager backend.                 *)
(*                                                                         *)
(* Two deploy paths share the Deployment and Site tables:                  *)
(*   - POST /:id/deploy creates a QUEUED record and adds a BullMQ job that *)
(*     the deploy worker (deploy.worker.ts) processes;                     *)
(*   - POST /:id/upload runs the whole Docker pipeline inside the HTTP     *)
(*     handler (site.routes.ts).                                           *)
(* Every await of the handlers is a step of the model, so that requests,   *)
(* the worker and the un-awaited log appends interleave as they do on the  *)
(* Node event loop.                                                        *)
(*                                                                         *)
(* The Docker pipeline acts on the host: containers, network and image of  *)
(* a site, its nginx rule and certificate, its upload directory            *)
(* (docker.service.ts).  DELETE /:id tears a site down and deletes its     *)
(* row; POST /api/sites creates rows (site.service.ts).                    *)
(***************************************************************************)
EXTENDS Integers, Sequences, FiniteSets, TLC

\* ---- bounds of the model ------------------------------------------------
MaxRequests == 2      \* HTTP requests (deploy or upload) issued in a run
MaxOutput == 1        \* stdout/stderr chunks the deployment scripts emit in a run
MaxDbFaults == 1      \* rejected database calls in a run
MaxRestarts == 1      \* restarts of the server process in a run
MaxTreeDepth == 4     \* levels of directories below the extraction root

\* ---- program constants --------------------------------------------------
BASE_PORT == 8100     \* docker.service.ts:18
\* a queue whose failed jobs get a second attempt
AttemptsBug == 1 + 1
attempts == 1         \* deploy.queue.ts:14
\* a worker that runs two processors at a time
ConcurrencyBug == 1 + 1
concurrency == 1      \* deploy.worker.ts:116

Requests == 1..MaxRequests
Sites == {"s1"}       \* the site the deploy and upload requests of a run name
Deployed == {"s2"}    \* a site deployed before the server was last started
AllSites == Sites \cup Deployed
NoSite == "s0"        \* an id no site record has
Null == "null"
\* the id prisma gives the row a create request inserts
NewId(r) == CASE r = 1 -> "n1" [] r = 2 -> "n2" [] r = 3 -> "n3" [] OTHER -> "n4"
SiteIds == AllSites \cup {NewId(r) : r \in Requests}
\* the domain a site was created with
DomainOf(s) == CASE s = "s1" -> "s1.example" [] s = "s2" -> "s2.example" [] OTHER -> Null

VARIABLES
    site,        \* Site table: the row of each id, exists = FALSE when there is none
    dep,         \* Deployment table, one row per request that created one
    queue,       \* BullMQ wait list of the 'deploy' queue (job = request id)
    req,         \* HTTP request handlers and their position
    run,         \* worker handler invocations, per job
    pend,        \* appendLog calls fired from the stdout/stderr callbacks
    usedPorts,   \* DockerService.usedPorts
    docker,      \* host port published by each site's auth container, 0 = none
    faults,      \* database calls rejected so far
    host,        \* per site: the containers, network, image, nginx rule, certificate, upload directory
    applog,      \* lines the pino logger wrote with an error object
    script,      \* a run of deploy_site.sh: its arguments, its position, what it did
    search,      \* a call of findViFlowDll: the extracted tree and the result
    proxy,       \* the auth proxy of one site: its environment, its sessions, its answers
    hist         \* observation only: order of queue.add, of RUNNING, of settle;
                 \* whether nginx was reloaded with an invalid rule installed;
                 \* the number of times the server process was started again;
                 \* the ports getAvailablePort returned since the process started

\* the components studied on their own: no request handler writes them
units == <<script, search, proxy>>

vars == <<site, dep, queue, req, run, pend, usedPorts, docker, faults, host, applog, hist,
          units>>

\* ---- helpers ------------------------------------------------------------
IsPrefix(s, t) == Len(s) <= Len(t) /\ SubSeq(t, 1, Len(s)) = s

Terminal == {"SUCCESS", "FAILED"}

NoDep == [status |-> "none", log |-> <<>>, siteId |-> NoSite, via |-> "none"]

\* req.file undefined: the request carried no file
NoFile == [present |-> FALSE, sizeOver |-> 0, isFile |-> FALSE, magicPK |-> FALSE]

\* a request handler's locals; td and tdlog are the position in
\* DockerService.cleanup and what its steps logged, dto and counter the
\* locals of createSite
IdleReq == [kind |-> "none", pc |-> "idle", siteId |-> NoSite, error |-> Null,
            deployment |-> Null, snapName |-> Null, file |-> NoFile, zip |-> FALSE,
            extracted |-> FALSE, port |-> 0, td |-> 0, tdlog |-> <<>>,
            certFailed |-> FALSE, dto |-> [domain |-> Null, name |-> Null], counter |-> 0,
            detail |-> <<>>, psPorts |-> {}, primOk |-> FALSE,
            dllPath |-> Null]

\* no 'close' event of the script at hand
NoEvent == [isNull |-> TRUE, code |-> 1]

\* closed is the 'close' event of the script, kept until the status is written
IdleRun == [pc |-> "none", at |-> "none", cur |-> <<>>, exitCode |-> 0, emitted |-> 0,
            closed |-> NoEvent,
            attemptsMade |-> 0, spawned |-> 0]

\* a site as createSite leaves it: no container yet
FreshSite == [exists |-> TRUE, domain |-> Null, slug |-> [base |-> Null, n |-> 0],
              containerStatus |-> "stopped", containerName |-> Null, containerPort |-> 0,
              viflowVersion |-> Null]

\* no row with that id
NoRow == [FreshSite EXCEPT !.exists = FALSE]

\* a site whose upload succeeded: lines 324-333 of site.routes.ts
DeployedSite == [FreshSite EXCEPT !.containerStatus = "running",
                                  !.containerName = "viflow-auth", !.containerPort = BASE_PORT,
                                  !.viflowVersion = "8"]

\* the host resources of a site that was never deployed, and of a deployed
\* one; port is the host port the auth container was created with (-p)
NoHost == [auth |-> FALSE, app |-> FALSE, net |-> FALSE, image |-> FALSE,
           conf |-> "none", cert |-> FALSE, dir |-> FALSE, port |-> 0]
DeployedHost == [auth |-> TRUE, app |-> TRUE, net |-> TRUE, image |-> TRUE,
                 conf |-> "valid", cert |-> TRUE, dir |-> TRUE, port |-> BASE_PORT]

SiteExists(s) == s \in SiteIds /\ site[s].exists

\* no run of deploy_site.sh
NoScript == [slug |-> Null, domain |-> Null, zip |-> FALSE, user |-> Null, password |-> Null,
             pc |-> "none", muts |-> {}, exit |-> "none"]

InitServer ==
    /\ site = [s \in SiteIds |->
                 IF s \in Sites THEN [FreshSite EXCEPT !.domain = DomainOf(s), !.slug.base = s]
                 ELSE IF s \in Deployed
                 THEN [DeployedSite EXCEPT !.domain = DomainOf(s), !.slug.base = s]
                 ELSE NoRow]
    /\ docker = [s \in AllSites |-> IF s \in Deployed THEN BASE_PORT ELSE 0]
    /\ host = [s \in AllSites |-> IF s \in Deployed THEN DeployedHost ELSE NoHost]
    /\ applog = {}
    /\ dep = [r \in Requests |-> NoDep]
    /\ queue = <<>>
    /\ req = [r \in Requests |-> IdleReq]
    /\ run = [r \in Requests |-> IdleRun]
    /\ pend = {}
    /\ usedPorts = {}
    /\ faults = 0
    /\ hist = [enq |-> <<>>, started |-> <<>>, settled |-> <<>>, badReload |-> FALSE,
               boots |-> 0, returned |-> {}]

\* no call of findViFlowDll
NoSearch == [dirs |-> {}, dll |-> {}, pc |-> "none", found |-> FALSE, dir |-> <<>>]

\* the clients of an auth proxy
Clients == {"c1", "c2"}

\* no auth proxy
NoProxy == [pc |-> "none", enabled |-> FALSE, AUTH_PASSWORD |-> Null,
            session |-> [c \in Clients |-> FALSE], posted |-> [c \in Clients |-> Null],
            last |-> [c \in Clients |-> "none"]]

Init == InitServer /\ script = NoScript /\ search = NoSearch /\ proxy = NoProxy

\* requests are issued in the order of their index
CanIssue(r) == req[r].pc = "idle" /\ (IF r = 1 THEN TRUE ELSE req[r - 1].pc # "idle")

\* ---- POST /:id/deploy ---------------------------------------------------
\* getSiteById, the fs.access check of the stored upload, then the QUEUED row
DeployCreate(r) ==
    /\ CanIssue(r)
    /\ \E s \in Sites \cup {NoSite}, hasZip \in BOOLEAN :
          IF ~SiteExists(s)
          THEN /\ req' = [req EXCEPT ![r] = [@ EXCEPT !.kind = "deploy", !.pc = "done",
                                               !.siteId = s, !.error = "Site not found"]]
               /\ UNCHANGED dep
          ELSE IF ~hasZip
          THEN /\ req' = [req EXCEPT ![r] = [@ EXCEPT !.kind = "deploy", !.pc = "done",
                                               !.siteId = s, !.error = "No upload found"]]
               /\ UNCHANGED dep
          ELSE /\ req' = [req EXCEPT ![r] = [@ EXCEPT !.kind = "deploy", !.pc = "add",
                                               !.siteId = s]]
               /\ dep' = [dep EXCEPT ![r] = [status |-> "QUEUED", log |-> <<>>,
                                             siteId |-> s, via |-> "queue"]]
    /\ UNCHANGED <<site, queue, run, pend, usedPorts, docker, faults, hist, host, applog, units>>

\* deployQueue.add, then the 202 response
DeployAdd(r) ==
    /\ req[r].pc = "add"
    /\ queue' = Append(queue, r)
    /\ hist' = [hist EXCEPT !.enq = Append(@, r)]
    /\ req' = [req EXCEPT ![r].pc = "done"]
    /\ UNCHANGED <<site, dep, run, pend, usedPorts, docker, faults, host, applog, units>>

\* ---- DeploymentService ---------------------------------------------------
\* updateDeploymentStatus: prisma.deployment.update of status (and message)
updateDeploymentStatus(d, id, status) == [d EXCEPT ![id].status = status]

\* appendLog, second half: newLog = currentLog + logLine + '\n', then update
appendLogWrite(d, id, currentLog, logLine) == [d EXCEPT ![id].log = Append(currentLog, logLine)]

\* ---- the deploy worker ---------------------------------------------------
Settled == {"completed", "failed"}
Active(j) == run[j].pc \notin ({"none"} \cup Settled)

\* BullMQ hands the next waiting job to the processor while fewer than
\* `concurrency` processors are running
WorkerDequeue ==
    /\ queue # <<>>
    /\ Cardinality({j \in Requests : Active(j)}) < concurrency
    /\ LET j == Head(queue) IN
          /\ run' = [run EXCEPT ![j].pc = "setRunning"]
          /\ hist' = [hist EXCEPT !.started = Append(@, j)]
    /\ queue' = Tail(queue)
    /\ UNCHANGED <<site, dep, req, pend, usedPorts, docker, faults, host, applog, units>>

\* line 33
WSetRunning(j) ==
    /\ run[j].pc = "setRunning"
    /\ dep' = updateDeploymentStatus(dep, j, "RUNNING")
    /\ run' = [run EXCEPT ![j].pc = "logStart"]
    /\ UNCHANGED <<site, queue, req, pend, usedPorts, docker, faults, hist, host, applog, units>>

\* the awaited appendLog calls of the processor: which line, where it
\* continues, and where a rejection of the call lands
AwaitedAppends == {"logStart", "logOk", "logFail", "logErr"}
AppendLine(pc) ==
    CASE pc = "logStart" -> "Starting deployment"
      [] pc = "logOk"    -> "Deployment completed successfully"
      [] pc = "logFail"  -> "Deployment failed with exit code"
      [] pc = "logErr"   -> "Job error"
AppendNext(pc) ==
    CASE pc = "logStart" -> "spawn"
      [] pc = "logOk"    -> "return"
      [] pc = "logFail"  -> "return"
      [] pc = "logErr"   -> "throw"
InTry(pc) == pc \in {"logOk", "logFail", "setSuccess", "setFailed"}
InCatch(pc) == pc \in {"logErr", "catch"}
CanFault(pc) == (InTry(pc) \/ InCatch(pc)) /\ faults < MaxDbFaults
FaultNext(pc) == IF InTry(pc) THEN "catch" ELSE "throw"

\* appendLog, first half: findUnique of the current log
WAppendRead(j) ==
    /\ run[j].pc \in AwaitedAppends
    /\ run' = [run EXCEPT ![j].cur = dep[j].log, ![j].at = run[j].pc, ![j].pc = "write"]
    /\ UNCHANGED <<site, dep, queue, req, pend, usedPorts, docker, faults, hist, host, applog, units>>

\* appendLog, second half; a rejected call throws at the await
WAppendWrite(j) ==
    /\ run[j].pc = "write"
    /\ \/ /\ dep' = appendLogWrite(dep, j, run[j].cur, AppendLine(run[j].at))
          /\ run' = [run EXCEPT ![j].pc = AppendNext(run[j].at), ![j].cur = <<>>, ![j].at = "none"]
          /\ UNCHANGED faults
       \/ /\ CanFault(run[j].at)
          /\ faults' = faults + 1
          /\ run' = [run EXCEPT ![j].pc = FaultNext(run[j].at), ![j].cur = <<>>, ![j].at = "none"]
          /\ UNCHANGED dep
    /\ UNCHANGED <<site, queue, req, pend, usedPorts, docker, hist, host, applog, units>>

\* lines 42-51: spawn('sudo', args); an argument spawn refuses throws here
WSpawn(j) ==
    /\ run[j].pc = "spawn"
    /\ \/ run' = [run EXCEPT ![j].pc = "script", ![j].spawned = @ + 1]
       \/ run' = [run EXCEPT ![j].pc = "catch"]
    /\ UNCHANGED <<site, dep, queue, req, pend, usedPorts, docker, faults, hist, host, applog, units>>

RECURSIVE TotalEmitted(_)
TotalEmitted(n) == IF n = 0 THEN 0 ELSE run[n].emitted + TotalEmitted(n - 1)

\* lines 56-66: a 'data' event of stdout or stderr calls appendLog and does
\* not await it
WEmit(j) ==
    /\ run[j].pc = "script"
    /\ TotalEmitted(MaxRequests) < MaxOutput
    /\ \E line \in {"stdout", "[ERROR] stderr"} :
          pend' = pend \cup {[job |-> j, k |-> run[j].emitted + 1, line |-> line,
                              phase |-> "read", cur |-> <<>>]}
    /\ run' = [run EXCEPT ![j].emitted = @ + 1]
    /\ UNCHANGED <<site, dep, queue, req, usedPorts, docker, faults, hist, host, applog, units>>

\* the un-awaited appendLog calls run on their own
PendRead ==
    /\ \E p \in pend :
          /\ p.phase = "read"
          /\ pend' = (pend \ {p}) \cup {[p EXCEPT !.phase = "write", !.cur = dep[p.job].log]}
    /\ UNCHANGED <<site, dep, queue, req, run, usedPorts, docker, faults, hist, host, applog, units>>

PendWrite ==
    /\ \E p \in pend :
          /\ p.phase = "write"
          /\ dep' = appendLogWrite(dep, p.job, p.cur, p.line)
          /\ pend' = pend \ {p}
    /\ UNCHANGED <<site, queue, req, run, usedPorts, docker, faults, hist, host, applog, units>>

\* line 69: proc.on('close', (code) => resolve(code || 0)); code is null when
\* the script was killed by a signal
CloseEvents == {[isNull |-> FALSE, code |-> 0], [isNull |-> FALSE, code |-> 1],
                [isNull |-> TRUE, code |-> 0]}
exitCodeOf(ev) == IF ev.isNull \/ ev.code = 0 THEN 0 ELSE ev.code

WClose(j) ==
    /\ run[j].pc = "script"
    /\ \E ev \in CloseEvents :
          run' = [run EXCEPT ![j].exitCode = exitCodeOf(ev), ![j].closed = ev,
                             ![j].pc = IF exitCodeOf(ev) = 0 THEN "setSuccess" ELSE "setFailed"]
    /\ UNCHANGED <<site, dep, queue, req, pend, usedPorts, docker, faults, hist, host, applog, units>>

\* lines 74-78, 85-89 and 99-103: the awaited status updates
StatusAt(pc) == IF pc = "setSuccess" THEN "SUCCESS" ELSE "FAILED"
StatusNext(pc) ==
    CASE pc = "setSuccess" -> "logOk"
      [] pc = "setFailed"  -> "logFail"
      [] pc = "catch"      -> "logErr"

WSetStatus(j) ==
    /\ run[j].pc \in {"setSuccess", "setFailed", "catch"}
    /\ \/ /\ dep' = updateDeploymentStatus(dep, j, StatusAt(run[j].pc))
          /\ run' = [run EXCEPT ![j].pc = StatusNext(run[j].pc), ![j].closed = NoEvent]
          /\ UNCHANGED faults
       \/ /\ CanFault(run[j].pc)
          /\ faults' = faults + 1
          /\ run' = [run EXCEPT ![j].pc = FaultNext(run[j].pc), ![j].closed = NoEvent]
          /\ UNCHANGED dep
    /\ UNCHANGED <<site, queue, req, pend, usedPorts, docker, hist, host, applog, units>>

\* the processor returned or threw: BullMQ completes the job, or fails it
\* and retries while attemptsMade < attempts
WSettle(j) ==
    /\ run[j].pc \in {"return", "throw"}
    /\ hist' = [hist EXCEPT !.settled = Append(@, j)]
    /\ IF run[j].pc = "return"
       THEN /\ run' = [run EXCEPT ![j].pc = "completed"]
            /\ UNCHANGED queue
       ELSE IF run[j].attemptsMade + 1 < attempts
       THEN /\ run' = [run EXCEPT ![j].pc = "none", ![j].attemptsMade = @ + 1]
            /\ queue' = Append(queue, j)
       ELSE /\ run' = [run EXCEPT ![j].pc = "failed", ![j].attemptsMade = @ + 1]
            /\ UNCHANGED queue
    /\ UNCHANGED <<site, dep, req, pend, usedPorts, docker, faults, host, applog, units>>

\* ---- zip-validator.ts ---------------------------------------------------
\* what fs.stat and the first bytes say about the uploaded file; sizeOver is
\* stats.size - maxSize
Files == [present : {TRUE}, sizeOver : {0, 1}, isFile : BOOLEAN, magicPK : BOOLEAN]

\* validateUploadFile without the magic-byte check of lines 91-97
validateNoMagicCheck(file) ==
    IF file.sizeOver > 0
    THEN [valid |-> FALSE, error |-> "File size exceeds maximum"]
    ELSE IF ~file.isFile
    THEN [valid |-> FALSE, error |-> "Upload is not a regular file"]
    ELSE [valid |-> TRUE, error |-> Null]

validateUploadFile(file) ==
    IF file.sizeOver > 0
    THEN [valid |-> FALSE, error |-> "File size exceeds maximum"]
    ELSE IF ~file.isFile
    THEN [valid |-> FALSE, error |-> "Upload is not a regular file"]
    ELSE IF ~file.magicPK
    THEN [valid |-> FALSE, error |-> "File is not a valid ZIP archive"]
    ELSE [valid |-> TRUE, error |-> Null]

\* ---- DockerService ------------------------------------------------------
\* `docker ps -a --format "{{.Ports}}"`: one line per container, the host
\* ports of its mappings. An auth container publishes its port for IPv4 and
\* for IPv6, an app container publishes none, a stopped container shows none
PsLines ==
    {<<docker[s], docker[s]>> : s \in {t \in AllSites : docker[t] # 0}}
        \cup {<<>> : s \in {t \in AllSites : host[t].app}}

\* lines 31-37: line.match(/:(\d+)->/) keeps the first mapping of a line
parsePorts(lines) == {l[1] : l \in {m \in lines : Len(m) > 0}}

\* the ports getAvailablePort reads off docker ps
DockerPorts == parsePorts(PsLines)

RECURSIVE NextFree(_, _)
NextFree(used, port) == IF port \in used THEN NextFree(used, port + 1) ELSE port

\* getAvailablePort that does not add the ports of docker ps to usedPorts
getAvailablePortNoScan(used, ports) == NextFree(used, BASE_PORT)

\* getAvailablePort: the ports of docker ps are added to usedPorts, then the
\* first port from BASE_PORT on that is not in usedPorts
getAvailablePort(used, ports) == NextFree(used \cup ports, BASE_PORT)

\* some installed rule does not pass `nginx -t`
InvalidInstalled(h) == \E s \in AllSites : h[s].conf = "invalid"

\* a cleanup that removes the network before the application container
CleanupStepsNetworkFirst == <<"stopAuth", "rmAuth", "network", "stopApp", "rmApp", "image",
                              "nginx", "cert", "uploads">>

\* cleanup, lines 571-647: the calls in the order of the code
CleanupSteps == <<"stopAuth", "rmAuth", "stopApp", "rmApp", "network", "image",
                  "nginx", "cert", "uploads">>

\* a cleanup that removes the upload directory whatever it was asked
LastStepAlways(deleteUploadDir) == Len(CleanupSteps)

\* the last step of a call: the upload directory only if deleteUploadDir
LastStep(deleteUploadDir) == IF deleteUploadDir THEN Len(CleanupSteps) ELSE Len(CleanupSteps) - 1

\* does the call of a step reject: stopContainer rethrows what docker stop
\* reports (line 330), `docker network rm` is a bare execAsync; the other
\* methods catch their own errors and fs.rm is called with force
opThrows(step, h, s) ==
    CASE step = "stopAuth" -> ~h[s].auth
      [] step = "stopApp"  -> ~h[s].app
      [] step = "network"  -> ~h[s].net
      [] OTHER             -> FALSE

\* does the step log a warning: a rejected call, or a method that caught
\* the error of its command (lines 358, 371, 564)
opWarns(step, h, s) ==
    CASE step = "rmAuth" -> ~h[s].auth
      [] step = "rmApp"  -> ~h[s].app
      [] step = "image"  -> ~h[s].image
      [] step = "cert"   -> ~h[s].cert
      [] OTHER           -> opThrows(step, h, s)

\* a cleanup whose first call is not wrapped in try/catch
cleanupCatchesButFirst(step) == step # "stopAuth"

\* every call of cleanup sits in a try/catch of its own
cleanupCatches(step) == TRUE

\* what a step leaves of the site's resources
hostAfter(step, h, s) ==
    CASE step = "rmAuth"  -> [h EXCEPT ![s].auth = FALSE, ![s].port = 0]
      [] step = "rmApp"   -> [h EXCEPT ![s].app = FALSE]
      [] step = "network" -> [h EXCEPT ![s].net = FALSE]
      [] step = "image"   -> [h EXCEPT ![s].image = FALSE]
      [] step = "nginx"   -> [h EXCEPT ![s].conf = "none"]
      [] step = "cert"    -> [h EXCEPT ![s].cert = FALSE]
      [] step = "uploads" -> [h EXCEPT ![s].dir = FALSE]
      [] OTHER            -> h

\* a stopped or removed auth container publishes no port
dockerAfter(step, d, s) == IF step \in {"stopAuth", "rmAuth"} THEN [d EXCEPT ![s] = 0] ELSE d

\* ---- error middleware ---------------------------------------------------
\* the messages of the AppErrors the handlers throw
AppErrors == {"No file uploaded", "Site not found", "No upload found",
              "File size exceeds maximum", "Upload is not a regular file",
              "File is not a valid ZIP archive", "Kein ViFlow Export erkannt",
              "Domain already exists", "Invalid domain format",
              "Invalid site name - cannot generate valid slug",
              "No container found for this site"}

\* errorHandler: an AppError is logged without its message; any other error
\* is logged with `message: err.message`
errorHandler(log, error, detail) ==
    IF error \in AppErrors THEN log ELSE log \cup {<<"Unexpected error", error>> \o detail}

\* child_process.exec rejects with 'Command failed: ' + the command line
ExecError(cmd) == <<"Command failed:">> \o cmd

\* the basicAuthPassword of the site rows
Password == "basicAuthPassword-of-the-site"

\* lines 298-307: the command line that starts the auth proxy
authCmd(authPassword) ==
    <<"docker run -d --name viflow-auth -p", "-e AUTH_PASSWORD=", authPassword,
      "--restart unless-stopped viflow-auth-proxy">>

\* the handler has returned: what it read and allocated on the way is gone
\* with it, the uploaded file and the response stay
Returned(q) == [q EXCEPT !.pc = "done", !.snapName = Null, !.port = 0, !.psPorts = {},
                         !.td = 0, !.tdlog = <<>>, !.detail = <<>>, !.primOk = FALSE,
                         !.dllPath = Null]

\* ---- DockerService.cleanup, called by the upload and the delete handler -
\* one call of cleanup per step. A docker or certbot command on a resource
\* that exists succeeds; on one that does not, it fails
CleanupStep(r) ==
    /\ req[r].pc = "teardown"
    /\ LET s == req[r].siteId
           i == req[r].td
           step == CleanupSteps[i]
           throws == opThrows(step, host, s)
           entry == [step |-> step, warn |-> opWarns(step, host, s)]
           h == IF throws THEN host ELSE hostAfter(step, host, s)
       IN  /\ host' = h
           /\ docker' = IF throws THEN docker ELSE dockerAfter(step, docker, s)
           \* removeNginxConfig reloads nginx after the rm -f (line 502)
           /\ hist' = IF step = "nginx"
                      THEN [hist EXCEPT !.badReload = @ \/ InvalidInstalled(h)]
                      ELSE hist
           /\ IF throws /\ ~cleanupCatches(step)
              THEN IF req[r].kind = "upload"
                   THEN /\ req' = [req EXCEPT ![r].pc = "catch", ![r].td = 0,
                                              ![r].tdlog = Append(@, entry),
                                              ![r].error = "Failed to stop container"]
                        /\ UNCHANGED applog
                   ELSE /\ req' = [req EXCEPT ![r] = [Returned(@) EXCEPT
                                                         !.error = "Failed to stop container"]]
                        /\ applog' = errorHandler(applog, "Failed to stop container", <<>>)
              ELSE /\ UNCHANGED applog
                   /\ IF i < LastStep(req[r].kind = "delete")
                      THEN req' = [req EXCEPT ![r].td = i + 1, ![r].tdlog = Append(@, entry)]
                      ELSE req' = [req EXCEPT ![r].td = 0, ![r].tdlog = Append(@, entry),
                                              ![r].pc = IF req[r].kind = "delete"
                                                        THEN "deleteSite" ELSE "build"]
    /\ UNCHANGED <<site, dep, queue, run, pend, usedPorts, faults, units>>

\* ---- POST /:id/upload ---------------------------------------------------
\* the helper appendLog of site.routes.ts (lines 20-29); each request appends
\* to its own row only and awaits every call, so a call is one step
routeAppendLog(d, id, lines) == [d EXCEPT ![id].log = @ \o lines]

Throw(r, msg) == [req EXCEPT ![r].pc = "catch", ![r].error = msg]

\* what the handler has learnt of the file: nothing but its presence before
\* validateUploadFile ran, and validateUploadFile returns at the first
\* check that fails (lines 68-97)
AsRead(file, validated) ==
    IF ~validated THEN [NoFile EXCEPT !.present = file.present]
    ELSE IF file.sizeOver > 0 THEN [NoFile EXCEPT !.present = TRUE, !.sizeOver = file.sizeOver]
    ELSE IF ~file.isFile THEN [NoFile EXCEPT !.present = TRUE]
    ELSE file

\* lines 176-192: req.file, getSiteById, validateUploadFile
UploadStart(r) ==
    /\ CanIssue(r)
    /\ \E s \in Sites \cup {NoSite}, file \in Files \cup {NoFile} :
          LET q == [req[r] EXCEPT !.kind = "upload", !.siteId = s,
                                  !.file = AsRead(file, file.present /\ SiteExists(s)),
                                  !.zip = file.present]
              validation == validateUploadFile(file)
          IN  IF ~file.present
              THEN req' = [req EXCEPT ![r] = [q EXCEPT !.pc = "catch", !.error = "No file uploaded"]]
              ELSE IF ~SiteExists(s)
              THEN req' = [req EXCEPT ![r] = [q EXCEPT !.pc = "catch", !.error = "Site not found"]]
              ELSE IF ~validation.valid
              THEN req' = [req EXCEPT ![r] = [q EXCEPT !.pc = "catch", !.zip = FALSE,
                                                       !.error = validation.error]]
              ELSE req' = [req EXCEPT ![r] = [q EXCEPT !.pc = "building",
                                                       !.snapName = site[s].containerName]]
    /\ UNCHANGED <<site, dep, queue, run, pend, usedPorts, docker, faults, host, applog, hist, units>>

\* lines 195-198; prisma rejects the update of a row that is gone
UploadBuilding(r) ==
    /\ req[r].pc = "building"
    /\ IF SiteExists(req[r].siteId)
       THEN /\ site' = [site EXCEPT ![req[r].siteId].containerStatus = "building"]
            /\ req' = [req EXCEPT ![r].pc = "create"]
       ELSE /\ req' = Throw(r, "Record to update not found")
            /\ UNCHANGED site
    /\ UNCHANGED <<dep, queue, run, pend, usedPorts, docker, faults, host, applog, hist, units>>

\* lines 201-207: `const deployment` of the try block; the `let deployment`
\* of line 173 is a different variable and keeps its null. The row refers
\* to its site
UploadCreate(r) ==
    /\ req[r].pc = "create"
    /\ IF SiteExists(req[r].siteId)
       THEN /\ dep' = [dep EXCEPT ![r] = [status |-> "RUNNING", log |-> <<>>,
                                         siteId |-> req[r].siteId, via |-> "upload"]]
            /\ req' = [req EXCEPT ![r].pc = "extract"]
       ELSE /\ req' = Throw(r, "Foreign key constraint failed")
            /\ UNCHANGED dep
    /\ UNCHANGED <<site, queue, run, pend, usedPorts, docker, faults, host, applog, hist, units>>

\* lines 210-225: the site's upload directory, the extraction directory,
\* the first log line, AdmZip
UploadExtract(r) ==
    /\ req[r].pc = "extract"
    /\ dep' = [dep EXCEPT ![r].log = <<"Extracting ZIP file...">>]
    /\ host' = [host EXCEPT ![req[r].siteId].dir = TRUE]
    /\ \/ req' = [req EXCEPT ![r].pc = "find", ![r].extracted = TRUE]
       \/ req' = [Throw(r, "Invalid or unsupported zip format") EXCEPT ![r].extracted = TRUE]
    /\ UNCHANGED <<site, queue, run, pend, usedPorts, docker, faults, applog, hist, units>>

\* a handler that goes on without the directory of the DLL
dllMissingIgnored(dllPath) == FALSE

\* lines 231-233: if (!dllPath) throw
dllMissingThrows(dllPath) == dllPath = Null

\* lines 227-286: findViFlowDll, appsettings.json, detectViFlowVersion; the
\* archive holds the DLL within reach of the search or it does not
UploadFind(r) ==
    /\ req[r].pc = "find"
    /\ \E dllPath \in {"extracted", Null} :
          IF dllMissingThrows(dllPath)
          THEN /\ dep' = routeAppendLog(dep, r, <<"Searching for ViFlow application...">>)
               /\ req' = Throw(r, "Kein ViFlow Export erkannt")
          ELSE /\ dep' = routeAppendLog(dep, r, <<"Searching for ViFlow application...",
                             "ViFlow application found", "Configuring appsettings.json...",
                             "Detecting ViFlow version...", "ViFlow version detected">>)
               /\ req' = [req EXCEPT ![r].pc = "cleanup", ![r].dllPath = dllPath]
    /\ UNCHANGED <<site, queue, run, pend, usedPorts, docker, faults, host, applog, hist, units>>

\* lines 288-293: cleanup(siteId, site.domain, false) of the old containers
\* when the site had one at the time of getSiteById
UploadCleanup(r) ==
    /\ req[r].pc = "cleanup"
    /\ IF req[r].snapName # Null
       THEN /\ dep' = routeAppendLog(dep, r, <<"Cleaning up old container...">>)
            /\ req' = [req EXCEPT ![r].pc = "teardown", ![r].td = 1, ![r].tdlog = <<>>]
       ELSE /\ req' = [req EXCEPT ![r].pc = "build"]
            /\ UNCHANGED dep
    /\ UNCHANGED <<site, queue, run, pend, usedPorts, docker, faults, host, applog, hist, units>>

\* lines 295-299: buildImage tags the image viflow-site-<id>
UploadBuild(r) ==
    /\ req[r].pc = "build"
    /\ \/ /\ dep' = routeAppendLog(dep, r, <<"Building Docker image...", "Docker image built">>)
          /\ host' = [host EXCEPT ![req[r].siteId].image = TRUE]
          /\ req' = [req EXCEPT ![r].pc = "port"]
       \/ /\ dep' = routeAppendLog(dep, r, <<"Building Docker image...">>)
          /\ req' = Throw(r, "Docker build failed")
          /\ UNCHANGED host
    /\ UNCHANGED <<site, queue, run, pend, usedPorts, docker, faults, applog, hist, units>>

\* line 301 and lines 27-42 of getAvailablePort: the awaited docker ps; when
\* it fails no port is read. psPorts is the `ports` of lines 31-37, kept
\* until the containers are started
UploadPortPs(r) ==
    /\ req[r].pc = "port"
    /\ \E psOk \in BOOLEAN :
          req' = [req EXCEPT ![r].pc = "pick",
                             ![r].psPorts = IF psOk THEN DockerPorts ELSE {}]
    /\ UNCHANGED <<site, dep, queue, run, pend, usedPorts, docker, faults, host, applog, hist,
                   units>>

\* a getAvailablePort that does not record the port it returns
reserveNothing(used, port) == used

\* line 49: this.usedPorts.add(port)
reservePort(used, port) == used \cup {port}

\* lines 39-50 of getAvailablePort, which run without an await once docker
\* ps has answered, and lines 302-303
UploadPort(r) ==
    /\ req[r].pc = "pick"
    /\ LET port == getAvailablePort(usedPorts, req[r].psPorts)
       IN  /\ usedPorts' = reservePort(usedPorts \cup req[r].psPorts, port)
           /\ req' = [req EXCEPT ![r].pc = "start", ![r].port = port]
           /\ hist' = [hist EXCEPT !.returned = @ \cup {port}]
    /\ dep' = routeAppendLog(dep, r, <<"Assigned port">>)
    /\ UNCHANGED <<site, queue, run, pend, docker, faults, host, applog, units>>

\* what startContainer leaves when the command of `stage` fails: the old
\* containers and network are removed first (lines 275-281), then the
\* network, the app container and the auth container are created in turn
startFailed(h, s, stage) ==
    [h EXCEPT ![s].auth = FALSE, ![s].port = 0,
              ![s].net = stage \in {"app", "auth"},
              ![s].app = stage = "auth"]

\* the message of the error startContainer throws (line 316)
startError(stage) ==
    CASE stage = "network" -> ExecError(<<"docker network create">>)
      [] stage = "app"     -> ExecError(<<"docker run -d --name viflow-app">>)
      [] stage = "auth"    -> ExecError(authCmd(Password))

\* lines 305-316: startContainer; docker refuses to publish a port another
\* container publishes
UploadStartContainer(r) ==
    /\ req[r].pc = "start"
    /\ LET s == req[r].siteId IN
       \/ /\ \A t \in AllSites \ {s} : docker[t] # req[r].port
          /\ docker' = [docker EXCEPT ![s] = req[r].port]
          /\ host' = [host EXCEPT ![s].auth = TRUE, ![s].app = TRUE, ![s].net = TRUE,
                                   ![s].port = req[r].port]
          /\ dep' = routeAppendLog(dep, r, <<"Starting Docker containers...", "Containers started">>)
          /\ req' = [req EXCEPT ![r].pc = "nginx", ![r].psPorts = {}]
       \/ \E stage \in {"network", "app", "auth"} :
             /\ docker' = [docker EXCEPT ![s] = 0]
             /\ host' = startFailed(host, s, stage)
             /\ dep' = routeAppendLog(dep, r, <<"Starting Docker containers...">>)
             /\ req' = [Throw(r, "Failed to start containers") EXCEPT
                            ![r].detail = startError(stage), ![r].psPorts = {}]
    /\ UNCHANGED <<site, queue, run, pend, usedPorts, faults, applog, hist, units>>

\* lines 318-321 and 427-446 of updateNginxConfig: the rule is moved into
\* sites-enabled, then `nginx -t` tests the whole configuration
UploadNginx(r) ==
    /\ req[r].pc = "nginx"
    /\ \E rule \in {"valid", "invalid"} :
          LET h == [host EXCEPT ![req[r].siteId].conf = rule]
          IN  /\ host' = h
              /\ IF InvalidInstalled(h)
                 THEN req' = Throw(r, "Failed to update Nginx")
                 ELSE req' = [req EXCEPT ![r].pc = "reload"]
    /\ dep' = routeAppendLog(dep, r, <<"Updating Nginx configuration...">>)
    /\ UNCHANGED <<site, queue, run, pend, usedPorts, docker, faults, applog, hist, units>>

\* a certbot failure that ends updateNginxConfig with an error
certbotFailureThrows(certOk) == ~certOk

\* lines 474-479: the catch of the certbot call does not rethrow
certbotFailureIsFatal(certOk) == FALSE

\* lines 448-479 of updateNginxConfig and line 322: `nginx -s reload`, the
\* wait, certbot
UploadReload(r) ==
    /\ req[r].pc = "reload"
    /\ hist' = [hist EXCEPT !.badReload = @ \/ InvalidInstalled(host)]
    /\ \/ /\ req' = Throw(r, "Failed to update Nginx")
          /\ UNCHANGED <<host, applog, dep>>
       \/ \E certOk \in BOOLEAN :
             /\ host' = [host EXCEPT ![req[r].siteId].cert = @ \/ certOk]
             /\ applog' = IF certOk THEN applog
                          ELSE applog \cup {<<"Certbot failed with error:">>
                                               \o ExecError(<<"certbot --nginx">>)}
             /\ IF certbotFailureIsFatal(certOk)
                THEN /\ req' = [Throw(r, "Failed to update Nginx") EXCEPT ![r].certFailed = ~certOk]
                     /\ UNCHANGED dep
                ELSE /\ req' = [req EXCEPT ![r].pc = "siteRunning", ![r].certFailed = ~certOk]
                     /\ dep' = routeAppendLog(dep, r, <<"Nginx configuration updated">>)
    /\ UNCHANGED <<site, queue, run, pend, usedPorts, docker, faults, units>>

\* lines 324-333; viflowVersion is what detectViFlowVersion returned at
\* line 284, which nothing reads before this update
UploadSiteRunning(r) ==
    /\ req[r].pc = "siteRunning"
    /\ IF SiteExists(req[r].siteId)
       THEN /\ \E viflowVersion \in {"7", "8"} :
                  site' = [site EXCEPT ![req[r].siteId].containerStatus = "running",
                                       ![req[r].siteId].containerName = "viflow-auth",
                                       ![req[r].siteId].containerPort = req[r].port,
                                       ![req[r].siteId].viflowVersion = viflowVersion]
            /\ req' = [req EXCEPT ![r].pc = "success"]
       ELSE /\ req' = Throw(r, "Record to update not found")
            /\ UNCHANGED site
    /\ UNCHANGED <<dep, queue, run, pend, usedPorts, docker, faults, host, applog, hist, units>>

\* lines 335-364: the summary lines, status SUCCESS, the archive is unlinked
UploadSuccess(r) ==
    /\ req[r].pc = "success"
    /\ dep' = [routeAppendLog(dep, r, <<"Deployment successful!">>) EXCEPT ![r].status = "SUCCESS"]
    /\ req' = [req EXCEPT ![r] = [Returned(@) EXCEPT !.zip = FALSE]]
    /\ UNCHANGED <<site, queue, run, pend, usedPorts, docker, faults, host, applog, hist, units>>

\* a catch block that does not unlink the archive
catchCleanupKeepsZip(q) == [q EXCEPT !.extracted = FALSE]

\* lines 389-395: the archive is unlinked, the extraction directory removed
catchCleanup(q) == [q EXCEPT !.zip = FALSE, !.extracted = FALSE]

\* lines 365-399: the catch block. The site update is attempted for any
\* req.params.id and its failure ignored; `deployment` is the variable of
\* line 173; next(error) hands the error to errorHandler
UploadCatch(r) ==
    /\ req[r].pc = "catch"
    /\ IF SiteExists(req[r].siteId)
       THEN site' = [site EXCEPT ![req[r].siteId].containerStatus = "error"]
       ELSE UNCHANGED site
    /\ IF req[r].deployment # Null
       THEN dep' = [routeAppendLog(dep, r, <<"Deployment failed!", req[r].error>> \o req[r].detail)
                       EXCEPT ![r].status = "FAILED"]
       ELSE UNCHANGED dep
    /\ req' = [req EXCEPT ![r] = Returned(catchCleanup(@))]
    /\ applog' = errorHandler(applog, req[r].error, req[r].detail)
    /\ UNCHANGED <<queue, run, pend, usedPorts, docker, faults, host, hist, units>>

\* ---- DELETE /:id ---------------------------------------------------------
\* lines 583-594: findUnique, then cleanup(siteId, site.domain) only when
\* the row has a containerName
DeleteStart(r) ==
    /\ CanIssue(r)
    /\ \E s \in AllSites \cup {NoSite} :
          LET q == [req[r] EXCEPT !.kind = "delete", !.siteId = s]
          IN  IF ~SiteExists(s)
              THEN req' = [req EXCEPT ![r] = [q EXCEPT !.pc = "done", !.error = "Site not found"]]
              ELSE IF site[s].containerName # Null
              THEN req' = [req EXCEPT ![r] = [q EXCEPT !.pc = "teardown", !.td = 1,
                                                       !.snapName = site[s].containerName]]
              ELSE req' = [req EXCEPT ![r] = [q EXCEPT !.pc = "deleteSite"]]
    /\ UNCHANGED <<site, dep, queue, run, pend, usedPorts, docker, faults, host, applog, hist, units>>

\* deleteSite, lines 108-112: findUnique
DeleteFind(r) ==
    /\ req[r].pc = "deleteSite"
    /\ IF SiteExists(req[r].siteId)
       THEN req' = [req EXCEPT ![r].pc = "deleteRow"]
       ELSE req' = [req EXCEPT ![r] = [Returned(@) EXCEPT !.error = "Site not found"]]
    /\ UNCHANGED <<site, dep, queue, run, pend, usedPorts, docker, faults, host, applog, hist, units>>

\* deleteSite, line 114: prisma.site.delete rejects when the row is gone
DeleteRow(r) ==
    /\ req[r].pc = "deleteRow"
    /\ IF SiteExists(req[r].siteId)
       THEN /\ site' = [site EXCEPT ![req[r].siteId] = NoRow]
            /\ req' = [req EXCEPT ![r] = Returned(@)]
            /\ UNCHANGED applog
       ELSE /\ req' = [req EXCEPT ![r] = [Returned(@) EXCEPT
                                              !.error = "Record to delete does not exist"]]
            /\ applog' = errorHandler(applog, "Record to delete does not exist", <<>>)
            /\ UNCHANGED site
    /\ UNCHANGED <<dep, queue, run, pend, usedPorts, docker, faults, host, hist, units>>

\* ---- POST /:id/start and POST /:id/stop ---------------------------------
\* the status a lifecycle request writes
lifeStatus(kind) == IF kind = "start" THEN "running" ELSE "stopped"

\* the message of the error of startExistingContainer and stopContainer
lifeError(kind) == IF kind = "start" THEN "Failed to start container"
                   ELSE "Failed to stop container"

\* a primitive that logs the error of its command and returns
primitiveSwallows(ok) == FALSE

\* lines 328-331 and 342-345 of docker.service.ts: the catch rethrows
primitiveRethrows(ok) == ~ok

\* lines 453-460 and 479-486: getSiteById and the containerName check
LifeFind(r) ==
    /\ CanIssue(r)
    /\ \E s \in AllSites \cup {NoSite}, kind \in {"start", "stop"} :
          LET q == [req[r] EXCEPT !.kind = kind, !.siteId = s]
          IN  IF ~SiteExists(s)
              THEN req' = [req EXCEPT ![r] = [q EXCEPT !.pc = "done", !.error = "Site not found"]]
              ELSE IF site[s].containerName = Null
              THEN req' = [req EXCEPT ![r] = [q EXCEPT !.pc = "done",
                                                       !.error = "No container found for this site"]]
              ELSE req' = [req EXCEPT ![r] = [q EXCEPT !.pc = "lifeRun",
                                                       !.snapName = site[s].containerName]]
    /\ UNCHANGED <<site, dep, queue, run, pend, usedPorts, docker, faults, host, applog, hist, units>>

\* lines 462 and 488: `docker start` / `docker stop` of the auth container.
\* The command fails on a container that is not there, and a start fails
\* when another container publishes the port
LifeRun(r) ==
    /\ req[r].pc = "lifeRun"
    /\ LET s == req[r].siteId
           kind == req[r].kind
       IN  \E ok \in BOOLEAN :
             /\ ok => host[s].auth
             /\ (ok /\ kind = "start") => \A t \in AllSites \ {s} : docker[t] # host[s].port
             /\ docker' = IF ~ok THEN docker
                          ELSE [docker EXCEPT ![s] = IF kind = "start" THEN host[s].port ELSE 0]
             /\ IF primitiveRethrows(ok)
                THEN /\ req' = [req EXCEPT ![r] = [Returned(@) EXCEPT !.error = lifeError(kind)]]
                     /\ applog' = errorHandler(applog, lifeError(kind), <<>>)
                ELSE /\ req' = [req EXCEPT ![r].pc = "lifeUpdate", ![r].primOk = ok]
                     /\ UNCHANGED applog
    /\ UNCHANGED <<site, dep, queue, run, pend, usedPorts, faults, host, hist, units>>

\* lines 464-471 and 490-497: prisma.site.update rejects when the row is gone
LifeUpdate(r) ==
    /\ req[r].pc = "lifeUpdate"
    /\ IF SiteExists(req[r].siteId)
       THEN /\ site' = [site EXCEPT ![req[r].siteId].containerStatus = lifeStatus(req[r].kind)]
            /\ req' = [req EXCEPT ![r] = Returned(@)]
            /\ UNCHANGED applog
       ELSE /\ req' = [req EXCEPT ![r] = [Returned(@) EXCEPT
                                              !.error = "Record to update not found"]]
            /\ applog' = errorHandler(applog, "Record to update not found", <<>>)
            /\ UNCHANGED site
    /\ UNCHANGED <<dep, queue, run, pend, usedPorts, docker, faults, host, hist, units>>

\* ---- containers outside the process, and the start of the server --------
\* the auth container of a site stops running: its process exits or an
\* operator stops it; the container is still there
ContainerExit(s) ==
    /\ docker[s] # 0
    /\ docker' = [docker EXCEPT ![s] = 0]
    /\ UNCHANGED <<site, dep, queue, req, run, pend, usedPorts, faults, host, applog, hist, units>>

\* the names startContainer gives the containers of a site (lines 269-270)
ContainerNames(h) ==
    {<<"viflow-auth-", s>> : s \in {t \in AllSites : h[t].auth}}
        \cup {<<"viflow-app-", s>> : s \in {t \in AllSites : h[t].app}}

\* the {{.Status}} of a container: Up for a running one
IsUp(name, d) == IF name[1] = "viflow-auth-" THEN d[name[2]] # 0 ELSE TRUE

\* syncContainerStatus, lines 513-553: the containers whose name has
\* "viflow-site-", the rest of the name taken as the site id, the status of
\* that site set to running for Up and stopped otherwise
syncContainerStatus(st, d, h) ==
    LET listed == {n \in ContainerNames(h) : n[1] = "viflow-site-"}
    IN  [s \in DOMAIN st |->
            IF st[s].exists /\ \E n \in listed : n[2] = s
            THEN [st[s] EXCEPT !.containerStatus =
                     IF IsUp(CHOOSE n \in listed : n[2] = s, d) THEN "running" ELSE "stopped"]
            ELSE st[s]]

\* the start-up code (app.listen, createDeployWorker) has no call of
\* syncContainerStatus
startupSyncs == FALSE

\* no handler and no job is under way
Quiescent ==
    /\ \A r \in Requests : req[r].pc \in {"idle", "done"} /\ ~Active(r)
    /\ queue = <<>> /\ pend = {}

\* the process is stopped and started again: the static usedPorts is empty,
\* the start-up code runs
Restart ==
    /\ Quiescent
    /\ hist.boots < MaxRestarts
    /\ usedPorts' = {}
    /\ site' = IF startupSyncs THEN syncContainerStatus(site, docker, host) ELSE site
    /\ hist' = [hist EXCEPT !.boots = @ + 1, !.returned = {}]
    /\ UNCHANGED <<dep, queue, req, run, pend, docker, faults, host, applog, units>>

\* ---- POST /api/sites and SiteService.createSite -------------------------
\* the fullDomain and the name a create request carries
CreateDomains == {"s2.example", "new.example", "not a domain"}
CreateNames == {"Shop", "!!!"}

\* isValidDomain: the pattern of domain.ts, by cases of the inputs above
isValidDomain(domain) == domain # "not a domain"

\* generateSlug: lower case, everything but [a-z0-9 -] removed
generateSlug(name) == IF name = "Shop" THEN "shop" ELSE ""

\* isValidSlug: /^[a-z0-9]+(-[a-z0-9]+)*$/
isValidSlug(slug) == slug # ""

\* uniqueSlug of lines 44-50: the slug, with -1, -2, ... after collisions
uniqueSlug(q) == [base |-> generateSlug(q.dto.name), n |-> q.counter - 1]

DomainTaken(domain) == \E s \in SiteIds : site[s].exists /\ site[s].domain = domain
SlugTaken(slug) == \E s \in SiteIds : site[s].exists /\ site[s].slug = slug

\* the unique indexes of Site.domain and Site.slug that findUnique relies on
uniqueViolation(domain, slug) == DomainTaken(domain) \/ SlugTaken(slug)

\* lines 126-149 of site.routes.ts and 23-25 of createSite
CreateStart(r) ==
    /\ CanIssue(r)
    /\ \E domain \in CreateDomains, name \in CreateNames :
          LET q == [req[r] EXCEPT !.kind = "create", !.dto = [domain |-> domain, name |-> name]]
          IN  IF ~isValidDomain(domain)
              THEN req' = [req EXCEPT ![r] = [q EXCEPT !.pc = "done", !.error = "Invalid domain format"]]
              ELSE req' = [req EXCEPT ![r] = [q EXCEPT !.pc = "checkDomain"]]
    /\ UNCHANGED <<site, dep, queue, run, pend, usedPorts, docker, faults, host, applog, hist, units>>

\* lines 28-41: findUnique by domain, then the slug of the name
CreateCheckDomain(r) ==
    /\ req[r].pc = "checkDomain"
    /\ IF DomainTaken(req[r].dto.domain)
       THEN req' = [req EXCEPT ![r].pc = "done", ![r].error = "Domain already exists"]
       ELSE IF ~isValidSlug(generateSlug(req[r].dto.name))
       THEN req' = [req EXCEPT ![r].pc = "done", ![r].error = "Invalid site name - cannot generate valid slug"]
       ELSE req' = [req EXCEPT ![r].pc = "checkSlug", ![r].counter = 1]
    /\ UNCHANGED <<site, dep, queue, run, pend, usedPorts, docker, faults, host, applog, hist, units>>

\* lines 46-49: one findUnique by slug of the while loop
CreateCheckSlug(r) ==
    /\ req[r].pc = "checkSlug"
    /\ IF SlugTaken(uniqueSlug(req[r]))
       THEN req' = [req EXCEPT ![r].counter = @ + 1]
       ELSE req' = [req EXCEPT ![r].pc = "insert"]
    /\ UNCHANGED <<site, dep, queue, run, pend, usedPorts, docker, faults, host, applog, hist, units>>

\* lines 52-66: prisma.site.create; a unique index rejects the row
CreateInsert(r) ==
    /\ req[r].pc = "insert"
    /\ IF uniqueViolation(req[r].dto.domain, uniqueSlug(req[r]))
       THEN /\ req' = [req EXCEPT ![r].pc = "done", ![r].error = "Unique constraint failed"]
            /\ applog' = errorHandler(applog, "Unique constraint failed", <<>>)
            /\ UNCHANGED site
       ELSE /\ site' = [site EXCEPT ![NewId(r)] =
                           [FreshSite EXCEPT !.domain = req[r].dto.domain,
                                             !.slug = uniqueSlug(req[r])]]
            /\ req' = [req EXCEPT ![r].pc = "done", ![r].siteId = NewId(r)]
            /\ UNCHANGED applog
    /\ UNCHANGED <<dep, queue, run, pend, usedPorts, docker, faults, host, hist, units>>

\* ---- deploy_site.sh and nginx_site.sh ------------------------------------
\* the arguments a run is given: slug, domain, whether the file at zipPath
\* exists, basicAuthUser, basicAuthPassword
ScriptSlugs == {"shop", ""}
ScriptDomains == {"s1.example", "S1.example", "not a domain"}
ScriptUsers == {"admin", "ad:min"}
ScriptPasswords == {Password, ""}

InitScript ==
    /\ InitServer
    /\ script \in {[NoScript EXCEPT !.slug = sl, !.domain = d, !.zip = z, !.user = u,
                                     !.password = pw, !.pc = "args"] :
                      sl \in ScriptSlugs, d \in ScriptDomains, z \in BOOLEAN,
                      u \in ScriptUsers, pw \in ScriptPasswords}
    /\ search = NoSearch
    /\ proxy = NoProxy

\* lines 44-47: the pattern has no case-insensitive flag
scriptDomainOk(domain) == domain = "s1.example"

\* lines 22-53 of deploy_site.sh: the slug pattern, the domain pattern, the
\* file test of the archive; the credentials are assigned and not looked at
scriptChecks(sc) == isValidSlug(sc.slug) /\ scriptDomainOk(sc.domain) /\ sc.zip

ScriptExit(sc, code) == [sc EXCEPT !.pc = "exited", !.exit = code]

ScriptValidate ==
    /\ script.pc = "args"
    /\ script' = IF scriptChecks(script) THEN [script EXCEPT !.pc = "mkdir"]
                 ELSE ScriptExit(script, "1")
    /\ UNCHANGED <<site, dep, queue, req, run, pend, usedPorts, docker, faults, host, applog, hist,
                   search, proxy>>

\* lines 62-67: the site directory and the temp directory
ScriptMkdir ==
    /\ script.pc = "mkdir"
    /\ script' = [script EXCEPT !.pc = "unzip", !.muts = @ \cup {"mkdir site", "mkdir temp"}]
    /\ UNCHANGED <<site, dep, queue, req, run, pend, usedPorts, docker, faults, host, applog, hist,
                   search, proxy>>

\* lines 72-103: unzip, the file count, the path check
ScriptUnzip ==
    /\ script.pc = "unzip"
    /\ \E ok \in BOOLEAN :
          script' = IF ok THEN [script EXCEPT !.pc = "swap", !.muts = @ \cup {"unzip"}]
                    ELSE ScriptExit([script EXCEPT !.muts = @ \cup {"unzip", "rm temp"}], "1")
    /\ UNCHANGED <<site, dep, queue, req, run, pend, usedPorts, docker, faults, host, applog, hist,
                   search, proxy>>

\* lines 105-122: current becomes a backup, temp becomes current
ScriptSwap ==
    /\ script.pc = "swap"
    /\ script' = [script EXCEPT !.pc = "nginxSite", !.muts = @ \cup {"mv current", "chown"}]
    /\ UNCHANGED <<site, dep, queue, req, run, pend, usedPorts, docker, faults, host, applog, hist,
                   search, proxy>>

\* lines 124-129, nginx_site.sh: the same two patterns, then htpasswd with
\* the user and the password, the rule, the symlink, nginx -t. htpasswd
\* takes a well-formed user and password; what it does with others is its own
ScriptNginxSite ==
    /\ script.pc = "nginxSite"
    /\ \E htOk \in BOOLEAN, testOk \in BOOLEAN :
          /\ (script.user = "admin" /\ script.password # "") => htOk
          /\ script' =
                IF ~htOk
                THEN ScriptExit([script EXCEPT !.muts = @ \cup {"mkdir htpasswd"}], "1")
                ELSE LET sc == [script EXCEPT !.muts = @ \cup {"mkdir htpasswd", "htpasswd",
                                                               "nginx rule", "symlink"}]
                     IN  IF testOk THEN [sc EXCEPT !.pc = "nginxTest"] ELSE ScriptExit(sc, "1")
    /\ UNCHANGED <<site, dep, queue, req, run, pend, usedPorts, docker, faults, host, applog, hist,
                   search, proxy>>

\* lines 131-140: nginx -t, then the reload
ScriptNginxTest ==
    /\ script.pc = "nginxTest"
    /\ \E ok \in BOOLEAN :
          script' = IF ok THEN [script EXCEPT !.pc = "systemd", !.muts = @ \cup {"reload"}]
                    ELSE ScriptExit(script, "1")
    /\ UNCHANGED <<site, dep, queue, req, run, pend, usedPorts, docker, faults, host, applog, hist,
                   search, proxy>>

\* lines 142-147: systemd_service.sh
ScriptSystemd ==
    /\ script.pc = "systemd"
    /\ \E ok \in BOOLEAN :
          script' = IF ok THEN [script EXCEPT !.pc = "certbot", !.muts = @ \cup {"systemd unit"}]
                    ELSE ScriptExit(script, "1")
    /\ UNCHANGED <<site, dep, queue, req, run, pend, usedPorts, docker, faults, host, applog, hist,
                   search, proxy>>

\* lines 149-180: certbot must be installed; its failure is not the
\* script's, and nginx is reloaded again
ScriptCertbot ==
    /\ script.pc = "certbot"
    /\ \E installed \in BOOLEAN, ok \in BOOLEAN :
          script' = IF ~installed THEN ScriptExit(script, "1")
                    ELSE ScriptExit([script EXCEPT !.muts =
                                        @ \cup (IF ok THEN {"certificate"} ELSE {})], "0")
    /\ UNCHANGED <<site, dep, queue, req, run, pend, usedPorts, docker, faults, host, applog, hist,
                   search, proxy>>

\* ---- DockerService.findViFlowDll ----------------------------------------
\* a directory is the sequence of names that leads to it from extractPath
DirNames == <<"a", "b">>

RECURSIVE Chain(_)
Chain(n) == IF n = 0 THEN <<>> ELSE <<"a">> \o Chain(n - 1)

\* the extracted trees: a chain of directories a/a/..., and b and b/a beside it
Trees ==
    {{Chain(k) : k \in 0..n} \cup bs :
        n \in 0..MaxTreeDepth, bs \in {{}, {<<"b">>}, {<<"b">>, <<"b", "a">>}}}

\* a tree and the directories of it that hold ViCon.ViFlow.WebModel.Server.dll
SearchInputs == UNION {{<<t, d>> : d \in SUBSET t} : t \in Trees}

InitSearch ==
    /\ InitServer
    /\ script = NoScript
    /\ search \in {[NoSearch EXCEPT !.dirs = in[1], !.dll = in[2], !.pc = "call"] :
                      in \in SearchInputs}
    /\ proxy = NoProxy

\* fs.readdir of a directory: its subdirectories, here in the order of names
Entries(dirs, dir) == SelectSeq(DirNames, LAMBDA n : Append(dir, n) \in dirs)

NotFound == [found |-> FALSE, dir |-> <<>>]

\* line 67: if (depth > 2) return null
searchDepthExceeded(depth) == depth > 2

\* lines 66-92: searchDirs, and its for loop over the entries from the i-th on
RECURSIVE searchDirs(_, _, _, _)
RECURSIVE searchEntries(_, _, _, _, _)
searchEntries(dirs, dll, dir, depth, i) ==
    IF i > Len(Entries(dirs, dir)) THEN NotFound
    ELSE LET subPath == Append(dir, Entries(dirs, dir)[i])
             found == searchDirs(dirs, dll, subPath, depth + 1)
         IN  IF subPath \in dll THEN [found |-> TRUE, dir |-> subPath]
             ELSE IF found.found THEN found
             ELSE searchEntries(dirs, dll, dir, depth, i + 1)
searchDirs(dirs, dll, dir, depth) ==
    IF searchDepthExceeded(depth) THEN NotFound ELSE searchEntries(dirs, dll, dir, depth, 1)

\* lines 56-95: the root first, then searchDirs(extractPath, 0)
findViFlowDll(dirs, dll) ==
    IF <<>> \in dll THEN [found |-> TRUE, dir |-> <<>>] ELSE searchDirs(dirs, dll, <<>>, 0)

FindCall ==
    /\ search.pc = "call"
    /\ LET res == findViFlowDll(search.dirs, search.dll)
       IN  search' = [search EXCEPT !.pc = "done", !.found = res.found, !.dir = res.dir]
    /\ UNCHANGED <<site, dep, queue, req, run, pend, usedPorts, docker, faults, host, applog, hist,
                   script, proxy>>

\* ---- the auth proxy (apps/auth-proxy/src/index.js) ----------------------
\* a deployment of a site with or without basicAuthEnabled starts the proxy
InitProxy ==
    /\ InitServer
    /\ script = NoScript
    /\ search = NoSearch
    /\ proxy \in {[NoProxy EXCEPT !.pc = "deploy", !.enabled = e] : e \in BOOLEAN}

\* the passwords a client posts to /login
PostedPasswords == {Password, "changeme", ""}

\* site.routes.ts line 308
authPasswordOf(basicAuthEnabled) == IF basicAuthEnabled THEN Password ELSE Null

\* docker.service.ts lines 298-307: -e AUTH_PASSWORD only for a truthy
\* authPassword; the value of the variable in the container
envOf(authPassword) == IF authPassword \in {Null, ""} THEN Null ELSE authPassword

\* index.js line 8: process.env.AUTH_PASSWORD || 'changeme'
AUTH_PASSWORD(env) == IF env \in {Null, ""} THEN "changeme" ELSE env

\* index.js lines 29-34
requireAuth(session) == session

\* startContainer runs the auth proxy, which reads its environment
ProxyStart ==
    /\ proxy.pc = "deploy"
    /\ proxy' = [proxy EXCEPT !.pc = "up",
                              !.AUTH_PASSWORD = AUTH_PASSWORD(envOf(authPasswordOf(proxy.enabled)))]
    /\ UNCHANGED <<site, dep, queue, req, run, pend, usedPorts, docker, faults, host, applog, hist,
                   script, search>>

\* index.js lines 188-197: POST /login
ProxyLogin(c) ==
    /\ proxy.pc = "up"
    /\ \E password \in PostedPasswords :
          IF password = proxy.AUTH_PASSWORD
          THEN proxy' = [proxy EXCEPT !.session[c] = TRUE, !.posted[c] = password,
                                      !.last[c] = "logged in"]
          ELSE proxy' = [proxy EXCEPT !.posted[c] = password, !.last[c] = "login error"]
    /\ UNCHANGED <<site, dep, queue, req, run, pend, usedPorts, docker, faults, host, applog, hist,
                   script, search>>

\* index.js lines 200-203: GET /logout
ProxyLogout(c) ==
    /\ proxy.pc = "up"
    /\ proxy' = [proxy EXCEPT !.session[c] = FALSE, !.last[c] = "logged out"]
    /\ UNCHANGED <<site, dep, queue, req, run, pend, usedPorts, docker, faults, host, applog, hist,
                   script, search>>

\* index.js lines 206-223: any other request goes through requireAuth and is
\* proxied to the application or redirected to /login
ProxyRequest(c) ==
    /\ proxy.pc = "up"
    /\ proxy' = [proxy EXCEPT !.last[c] = IF requireAuth(proxy.session[c])
                                          THEN "proxied" ELSE "to login"]
    /\ UNCHANGED <<site, dep, queue, req, run, pend, usedPorts, docker, faults, host, applog, hist,
                   script, search>>

NextProxy ==
    \/ ProxyStart
    \/ \E c \in Clients : ProxyLogin(c)
    \/ \E c \in Clients : ProxyLogout(c)
    \/ \E c \in Clients : ProxyRequest(c)

SpecProxy == InitProxy /\ [][NextProxy]_vars

Next ==
    \/ \E r \in Requests : DeployCreate(r)
    \/ \E r \in Requests : DeployAdd(r)
    \/ WorkerDequeue
    \/ \E j \in Requests : WSetRunning(j)
    \/ \E j \in Requests : WAppendRead(j)
    \/ \E j \in Requests : WAppendWrite(j)
    \/ \E j \in Requests : WSpawn(j)
    \/ \E j \in Requests : WEmit(j)
    \/ PendRead
    \/ PendWrite
    \/ \E j \in Requests : WClose(j)
    \/ \E j \in Requests : WSetStatus(j)
    \/ \E j \in Requests : WSettle(j)
    \/ \E r \in Requests : UploadStart(r)
    \/ \E r \in Requests : UploadBuilding(r)
    \/ \E r \in Requests : UploadCreate(r)
    \/ \E r \in Requests : UploadExtract(r)
    \/ \E r \in Requests : UploadFind(r)
    \/ \E r \in Requests : UploadCleanup(r)
    \/ \E r \in Requests : CleanupStep(r)
    \/ \E r \in Requests : UploadBuild(r)
    \/ \E r \in Requests : UploadPortPs(r)
    \/ \E r \in Requests : UploadPort(r)
    \/ \E r \in Requests : UploadStartContainer(r)
    \/ \E r \in Requests : UploadNginx(r)
    \/ \E r \in Requests : UploadReload(r)
    \/ \E r \in Requests : UploadSiteRunning(r)
    \/ \E r \in Requests : UploadSuccess(r)
    \/ \E r \in Requests : UploadCatch(r)
    \/ \E r \in Requests : DeleteStart(r)
    \/ \E r \in Requests : DeleteFind(r)
    \/ \E r \in Requests : DeleteRow(r)
    \/ \E r \in Requests : CreateStart(r)
    \/ \E r \in Requests : CreateCheckDomain(r)
    \/ \E r \in Requests : CreateCheckSlug(r)
    \/ \E r \in Requests : CreateInsert(r)
    \/ \E r \in Requests : LifeFind(r)
    \/ \E r \in Requests : LifeRun(r)
    \/ \E r \in Requests : LifeUpdate(r)
    \/ \E s \in AllSites : ContainerExit(s)
    \/ Restart

Spec == Init /\ [][Next]_vars

\* the queued path alone: deploy requests and the worker
NextQueue ==
    \/ \E r \in Requests : DeployCreate(r)
    \/ \E r \in Requests : DeployAdd(r)
    \/ WorkerDequeue
    \/ \E j \in Requests : WSetRunning(j)
    \/ \E j \in Requests : WAppendRead(j)
    \/ \E j \in Requests : WAppendWrite(j)
    \/ \E j \in Requests : WSpawn(j)
    \/ \E j \in Requests : WEmit(j)
    \/ PendRead
    \/ PendWrite
    \/ \E j \in Requests : WClose(j)
    \/ \E j \in Requests : WSetStatus(j)
    \/ \E j \in Requests : WSettle(j)

SpecQueue == Init /\ [][NextQueue]_vars

\* the upload path alone
NextUpload ==
    \/ \E r \in Requests : UploadStart(r)
    \/ \E r \in Requests : UploadBuilding(r)
    \/ \E r \in Requests : UploadCreate(r)
    \/ \E r \in Requests : UploadExtract(r)
    \/ \E r \in Requests : UploadFind(r)
    \/ \E r \in Requests : UploadCleanup(r)
    \/ \E r \in Requests : CleanupStep(r)
    \/ \E r \in Requests : UploadBuild(r)
    \/ \E r \in Requests : UploadPortPs(r)
    \/ \E r \in Requests : UploadPort(r)
    \/ \E r \in Requests : UploadStartContainer(r)
    \/ \E r \in Requests : UploadNginx(r)
    \/ \E r \in Requests : UploadReload(r)
    \/ \E r \in Requests : UploadSiteRunning(r)
    \/ \E r \in Requests : UploadSuccess(r)
    \/ \E r \in Requests : UploadCatch(r)

SpecUpload == Init /\ [][NextUpload]_vars

\* the delete path alone
NextDelete ==
    \/ \E r \in Requests : DeleteStart(r)
    \/ \E r \in Requests : CleanupStep(r)
    \/ \E r \in Requests : DeleteFind(r)
    \/ \E r \in Requests : DeleteRow(r)

SpecDelete == Init /\ [][NextDelete]_vars

\* uploads and deletes: the requests that change the host
NextHost ==
    \/ NextUpload
    \/ NextDelete

SpecHost == Init /\ [][NextHost]_vars

\* the lifecycle requests, with the deletes that take the container away
NextLife ==
    \/ \E r \in Requests : LifeFind(r)
    \/ \E r \in Requests : LifeRun(r)
    \/ \E r \in Requests : LifeUpdate(r)
    \/ NextDelete

SpecLife == Init /\ [][NextLife]_vars

\* lifecycle requests, containers that stop, and restarts of the server
NextRestart ==
    \/ \E r \in Requests : LifeFind(r)
    \/ \E r \in Requests : LifeRun(r)
    \/ \E r \in Requests : LifeUpdate(r)
    \/ \E s \in AllSites : ContainerExit(s)
    \/ Restart

SpecRestart == Init /\ [][NextRestart]_vars

\* one run of deploy_site.sh on arguments of every kind
NextScript ==
    \/ ScriptValidate
    \/ ScriptMkdir
    \/ ScriptUnzip
    \/ ScriptSwap
    \/ ScriptNginxSite
    \/ ScriptNginxTest
    \/ ScriptSystemd
    \/ ScriptCertbot

SpecScript == InitScript /\ [][NextScript]_vars

\* one call of findViFlowDll on trees of every shape
NextSearch == FindCall

SpecSearch == InitSearch /\ [][NextSearch]_vars

\* the rows of the Site table: create and delete requests
NextSites ==
    \/ \E r \in Requests : CreateStart(r)
    \/ \E r \in Requests : CreateCheckDomain(r)
    \/ \E r \in Requests : CreateCheckSlug(r)
    \/ \E r \in Requests : CreateInsert(r)
    \/ NextDelete

SpecSites == Init /\ [][NextSites]_vars

\* ---- properties ---------------------------------------------------------
UploadDone(j) == dep[j].via = "upload" /\ req[j].pc = "done"
QueueDone(j) == dep[j].via = "queue" /\ run[j].pc \in Settled
HandlerDone(j) == UploadDone(j) \/ QueueDone(j)

\* C1: once a job's status is SUCCESS or FAILED, no step changes it
C1_TerminalAbsorbing ==
    [][\A j \in Requests : dep[j].status \in Terminal => dep'[j].status = dep[j].status]_vars

InFlight(j) == dep[j].status = "RUNNING" /\ ~HandlerDone(j)

\* C2: at most one deployment is in flight: no two jobs are RUNNING with
\* their handlers still executing
C2_OneInFlight == Cardinality({j \in Requests : InFlight(j)}) <= 1

\* C3: every stored log value extends the one stored before it
C3_LogAppendOnly ==
    [][\A j \in Requests : IsPrefix(dep[j].log, dep'[j].log)]_vars

\* C4: a job that entered RUNNING ends SUCCESS or FAILED: once its handler
\* has finished, the job is not RUNNING any more
C4_RunningEnds ==
    \A j \in Requests : HandlerDone(j) => dep[j].status # "RUNNING"

StageFailed(j) ==
    \/ dep[j].via = "upload" /\ req[j].error # Null
    \/ dep[j].via = "queue" /\ (run[j].pc = "failed" \/ (run[j].pc = "completed" /\ run[j].exitCode # 0))
FailureLines == {"Deployment failed with exit code", "Job error", "Deployment failed!"}
FailureLogged(j) == \E i \in 1..Len(dep[j].log) : dep[j].log[i] \in FailureLines

\* C5: a job one of whose stages failed is FAILED with the error detail in
\* its log once its handler has finished, and the step that stores FAILED
\* finds the owning site with container status error
C5_FailureRecorded ==
    /\ [](\A j \in Requests : (HandlerDone(j) /\ StageFailed(j)) =>
              (dep[j].status = "FAILED" /\ FailureLogged(j)))
    /\ [][\A j \in Requests : (dep[j].status # "FAILED" /\ dep'[j].status = "FAILED") =>
              site'[dep'[j].siteId].containerStatus = "error"]_vars

\* C6: the step that stores SUCCESS for a job finds the owning site with
\* container status running, a container name and a port of at least 8100
C6_SuccessMeansRunning ==
    [][\A j \in Requests : (dep[j].status # "SUCCESS" /\ dep'[j].status = "SUCCESS") =>
          LET s == site'[dep'[j].siteId]
          IN  /\ s.containerStatus = "running"
              /\ s.containerName # Null
              /\ s.containerPort >= 8100]_vars

\* C7: a job record is created QUEUED, becomes RUNNING only from QUEUED in
\* the worker that dequeued it, and becomes SUCCESS or FAILED only from
\* RUNNING
C7_CreatedQueued ==
    [][\A j \in Requests :
          /\ (dep[j].status = "none" /\ dep'[j].status # "none") => dep'[j].status = "QUEUED"
          /\ (dep[j].status # "RUNNING" /\ dep'[j].status = "RUNNING") =>
                (dep[j].status = "QUEUED" /\ run[j].pc = "setRunning")
          /\ (dep[j].status \notin Terminal /\ dep'[j].status \in Terminal) =>
                dep[j].status = "RUNNING"]_vars

Before(seq, a, b) ==
    \E i, k \in 1..Len(seq) : i < k /\ seq[i] = a /\ seq[k] = b

\* C8: queued jobs are processed in the order of queue.add: when a job has
\* been handed to the processor, every job added before it has been handed
\* over earlier, has left QUEUED and has been settled
C8_FIFO ==
    \A a, b \in Requests :
        (Before(hist.enq, a, b) /\ run[b].pc # "none") =>
            /\ Before(hist.started, a, b)
            /\ ~Before(hist.started, b, a)
            /\ dep[a].status # "QUEUED"
            /\ run[a].pc \in Settled
\* two jobs were added and the later one has been processed to its end
C8_Witness ==
    \E a, b \in Requests : Before(hist.enq, a, b) /\ run[b].pc \in Settled

Occurrences(seq, j) == Cardinality({i \in 1..Len(seq) : seq[i] = j})

\* C9: no automatic retry: the script is spawned at most once per job, a job
\* is handed to the processor at most once, and a FAILED job never goes back
\* to QUEUED or RUNNING
C9_NoRetry ==
    /\ [](\A j \in Requests : run[j].spawned <= 1 /\ Occurrences(hist.started, j) <= 1)
    /\ [][\A j \in Requests : dep[j].status = "FAILED" =>
              dep'[j].status \notin {"QUEUED", "RUNNING"}]_vars
\* a job whose processor threw was failed by the queue and not queued again
C9_Witness ==
    \E j \in Requests : run[j].pc = "failed" /\ dep[j].status = "FAILED" /\ queue = <<>>

Rejected(file) == file.sizeOver > 0 \/ ~file.isFile \/ ~file.magicPK
ReasonFor(file) ==
    IF file.sizeOver > 0 THEN "File size exceeds maximum"
    ELSE IF ~file.isFile THEN "Upload is not a regular file"
    ELSE "File is not a valid ZIP archive"
InQueue(j) == \E i \in 1..Len(queue) : queue[i] = j

\* C10: an upload whose file is over the size limit, is no regular file or
\* does not start with the ZIP magic ends in the same request with that
\* reason; it has no deployment record, nothing queued, nothing extracted
\* and no port
C10_ValidationRejects ==
    \A r \in Requests :
        (req[r].kind = "upload" /\ req[r].file.present /\ req[r].siteId \in Sites
            /\ Rejected(req[r].file)) =>
            /\ req[r].pc \in {"catch", "done"}
            /\ req[r].error = ReasonFor(req[r].file)
            /\ dep[r].status = "none"
            /\ ~InQueue(r)
            /\ ~req[r].extracted
            /\ req[r].port = 0
\* an upload without the ZIP magic was answered with that reason
C10_Witness ==
    \E r \in Requests : req[r].pc = "done" /\ req[r].error = "File is not a valid ZIP archive"

\* no container, network, image, rule, certificate or upload directory of
\* the site is left on the host
HostClean(s) ==
    /\ ~host[s].auth /\ ~host[s].app /\ ~host[s].net /\ ~host[s].image
    /\ host[s].conf = "none" /\ ~host[s].cert /\ ~host[s].dir
    /\ docker[s] = 0

\* C11: the step that deletes a site's row finds every host resource of the
\* site torn down
C11_TeardownBeforeDelete ==
    [][\A s \in AllSites : (site[s].exists /\ ~site'[s].exists) => HostClean(s)]_vars

\* the place of a step in the order the teardown is specified in
Rank(step) ==
    CASE step \in {"stopAuth", "rmAuth"} -> 1
      [] step \in {"stopApp", "rmApp"}   -> 2
      [] step = "network"                -> 3
      [] step = "image"                  -> 4
      [] step = "nginx"                  -> 5
      [] step = "cert"                   -> 6
      [] step = "uploads"                -> 7
Attempted(r, k) == \E i \in 1..Len(req[r].tdlog) : Rank(req[r].tdlog[i].step) = k

\* C12: the steps a teardown call has attempted are in the order sidecar,
\* application container, network, image, proxy rule, certificate, uploaded
\* files: a step is attempted only after every earlier stage was, and the
\* uploaded files only in a call that asked for it
C12_TeardownOrder ==
    \A r \in Requests :
        LET log == req[r].tdlog IN
        /\ \A i, k \in 1..Len(log) : i < k => Rank(log[i].step) <= Rank(log[k].step)
        /\ \A i \in 1..Len(log) : \A n \in 1..(Rank(log[i].step) - 1) : Attempted(r, n)
        /\ Attempted(r, 7) => req[r].kind = "delete"
\* a delete whose teardown went through to the uploaded files
C12_Witness ==
    \E r \in Requests : req[r].kind = "delete" /\ Attempted(r, 7) /\ Len(req[r].tdlog) = 9

\* the steps whose command fails on a resource that is not there
FailsWhenAbsent == {"stopAuth", "rmAuth", "stopApp", "rmApp", "network", "image", "cert"}
TeardownReturned(r) == req[r].tdlog # <<>> /\ req[r].pc # "teardown"

\* C13: a teardown call never raises, whatever is absent: the handler that
\* called it goes on without an error of the teardown, and a call that
\* has returned has run all its steps
C13_TeardownIdempotent ==
    \A r \in Requests :
        /\ req[r].error # "Failed to stop container"
        /\ TeardownReturned(r) =>
              Len(req[r].tdlog) = (IF req[r].kind = "delete" THEN 9 ELSE 8)
\* a second teardown of a site: every resource was absent, every such step
\* logged its warning, and the call returned
C13_Witness ==
    \E r \in Requests :
        /\ TeardownReturned(r)
        /\ \A i \in 1..Len(req[r].tdlog) :
              req[r].tdlog[i].step \in FailsWhenAbsent => req[r].tdlog[i].warn

\* C14: nginx is never reloaded while a rule that failed `nginx -t` is
\* installed
C14_NoReloadOnInvalid == ~hist.badReload

CertbotLine == <<"Certbot failed with error:">> \o ExecError(<<"certbot --nginx">>)

Alone(r) == \A q \in Requests \ {r} : req[q].pc \in {"idle", "done"}

\* C17: after a sequence of deployments, re-deployments and teardowns that
\* have ended, a call of getAvailablePort that read docker ps returns the
\* lowest port from 8100 on that no container publishes
C17_LowestFreePort ==
    [][\A r \in Requests :
          (req[r].pc = "pick" /\ req'[r].pc = "start" /\ req[r].psPorts = DockerPorts
              /\ Alone(r)) =>
              req'[r].port = NextFree(DockerPorts, 8100)]_vars

Contains(line, token) == \E i \in 1..Len(line) : line[i] = token

\* C19: no line of the application log and no line of a deployment log
\* holds the site's password
C19_PasswordNotLogged ==
    /\ \A line \in applog : ~Contains(line, Password)
    /\ \A j \in Requests : \A i \in 1..Len(dep[j].log) : dep[j].log[i] # Password

\* C20: no two site rows share a domain, and a create request that ends
\* while another row has its domain ends with the conflict error and leaves
\* the Site table as it was
C20_DomainUnique ==
    /\ [](\A a, b \in SiteIds :
              (a # b /\ site[a].exists /\ site[b].exists) => site[a].domain # site[b].domain)
    /\ [][\A r \in Requests :
              (req[r].kind = "create" /\ req[r].pc # "done" /\ req'[r].pc = "done"
                  /\ DomainTaken(req[r].dto.domain)) =>
                  (req'[r].error = "Domain already exists" /\ site' = site)]_vars

IsLife(kind) == kind \in {"start", "stop"}

\* C21: a step of a start or stop request changes the Site table only after
\* its docker command succeeded, and then only the containerStatus of its
\* site, to running / stopped; a request whose command failed, or whose site
\* has no containerName, ends with an error; one that ends without an error
\* has written the status
C21_StatusAfterPrimitive ==
    [][\A r \in Requests :
          (IsLife(req'[r].kind) /\ req'[r] # req[r]) =>
              LET s == req'[r].siteId
                  kind == req'[r].kind
              IN  /\ site' # site =>
                        /\ req[r].primOk
                        /\ site' = [site EXCEPT ![s].containerStatus = lifeStatus(kind)]
                  /\ (req'[r].pc = "done" /\ ~req[r].primOk) => req'[r].error # Null
                  /\ (req'[r].pc = "done" /\ req'[r].error = Null) =>
                        site'[s].containerStatus = lifeStatus(kind)]_vars
\* a stop request has ended without an error and the site is recorded stopped
C21_Witness ==
    \E r \in Requests :
        /\ req[r].kind = "stop" /\ req[r].pc = "done" /\ req[r].error = Null
        /\ site[req[r].siteId].containerStatus = "stopped"

\* C22: when the server process has started again, every site is recorded
\* as running exactly if its container is running
C22_ReconciledOnRestart ==
    [][hist'.boots # hist.boots =>
          \A s \in AllSites :
              site'[s].exists => (site'[s].containerStatus = "running" <=> docker'[s] # 0)]_vars

\* a user name htpasswd can store and a password that is not empty
CredentialsWellFormed(sc) == sc.user = "admin" /\ sc.password # ""

\* C23: a run of deploy_site.sh that has changed anything on the host was
\* given a slug, a domain and credentials that are all well-formed
C23_ValidatedBeforeMutation ==
    script.muts # {} =>
        (isValidSlug(script.slug) /\ scriptDomainOk(script.domain)
            /\ CredentialsWellFormed(script))

\* C24: the directory findViFlowDll returns is the root or at most 2 levels
\* below it, and a tree that holds the file only deeper than 2 levels gives
\* not found
C24_SearchDepth ==
    search.pc = "done" =>
        /\ search.found => Len(search.dir) <= 2
        /\ (\A d \in search.dll : Len(d) > 2) => ~search.found

\* what provisioning leaves on the host: everything but the upload directory
Provisioned == <<[s \in AllSites |-> [host[s] EXCEPT !.dir = FALSE]], docker, usedPorts>>

\* C25: an upload whose search found no DLL ends with the error of that
\* search, and no step of an upload that has no DLL directory detects a
\* version, touches a container, network, image, rule or port, or writes
\* anything but the containerStatus of a site
C25_NotFoundAborts ==
    /\ [](\A r \in Requests :
              req[r].error = "Kein ViFlow Export erkannt" =>
                  /\ req[r].pc \in {"catch", "done"}
                  /\ ~Contains(dep[r].log, "Detecting ViFlow version..."))
    /\ [][\A r \in Requests :
              (req[r].kind = "upload" /\ req'[r] # req[r]
                  /\ req[r].dllPath = Null /\ req'[r].dllPath = Null) =>
                  /\ Provisioned' = Provisioned
                  /\ ~Contains(dep'[r].log, "Detecting ViFlow version...")
                  /\ ~Contains(dep'[r].log, "Building Docker image...")
                  /\ \A s \in SiteIds :
                        site'[s] = [site[s] EXCEPT !.containerStatus = site'[s].containerStatus]]_vars
\* an upload whose archive held no DLL has ended with the error
C25_Witness ==
    \E r \in Requests :
        /\ req[r].kind = "upload" /\ req[r].pc = "done"
        /\ req[r].error = "Kein ViFlow Export erkannt"
        /\ dep[r].status # "none"

\* C26: the cleanup an upload runs for the old containers comes before the
\* image is built, goes on to the build, and leaves the upload directory and
\* the extracted files where they are; an upload directory is removed only
\* by a step of the teardown of a delete request for that site
C26_CleanupKeepsUploads ==
    /\ [](\A r \in Requests :
              (req[r].kind = "upload" /\ req[r].pc = "teardown") =>
                  ~Contains(dep[r].log, "Building Docker image..."))
    /\ [][\A r \in Requests :
              (req[r].kind = "upload" /\ req[r].pc = "teardown" /\ req'[r] # req[r]) =>
                  /\ req'[r].pc \in {"teardown", "build"}
                  /\ req'[r].extracted = req[r].extracted
                  /\ \A s \in AllSites : host'[s].dir = host[s].dir]_vars
    /\ [][\A s \in AllSites :
              (host[s].dir /\ ~host'[s].dir) =>
                  \E r \in Requests :
                      /\ req[r].kind = "delete" /\ req[r].siteId = s
                      /\ req[r].pc = "teardown" /\ req'[r] # req[r]]_vars
\* a re-deployment has run its cleanup and is about to build, with the
\* upload directory and the extracted files in place
C26_Witness ==
    \E r \in Requests :
        /\ req[r].kind = "upload" /\ req[r].pc = "build" /\ Len(req[r].tdlog) = 8
        /\ host[req[r].siteId].dir /\ req[r].extracted

\* C27: the status of a queued job becomes SUCCESS only when its script has
\* closed with exit code 0
C27_SuccessOnlyOnExitZero ==
    [][\A j \in Requests :
          (dep[j].via = "queue" /\ dep[j].status # "SUCCESS" /\ dep'[j].status = "SUCCESS") =>
              run[j].closed = [isNull |-> FALSE, code |-> 0]]_vars

\* the messages of the errors thrown by the pre-checks of the upload handler
PreCheckErrors ==
    {"No file uploaded", "Site not found", "File size exceeds maximum",
     "Upload is not a regular file", "File is not a valid ZIP archive"}

\* C28: an upload rejected by a pre-check (no file, unknown site, failed
\* archive validation) leaves the site's recorded container status, container
\* name and port as they were
C28_RejectedUploadKeepsSite ==
    [][\A r \in Requests :
          (req[r].kind = "upload" /\ req[r].pc = "catch" /\ req[r].error \in PreCheckErrors
             /\ req'[r].pc # "catch" /\ SiteExists(req[r].siteId)) =>
              LET s == req[r].siteId
              IN  /\ site'[s].containerStatus = site[s].containerStatus
                  /\ site'[s].containerName = site[s].containerName
                  /\ site'[s].containerPort = site[s].containerPort]_vars

\* C29: no two calls of getAvailablePort within one process return the same
\* port, however the calls interleave: the port a call returns was returned
\* by no earlier call
C29_PortsDistinct ==
    [][\A r \in Requests :
          (req[r].pc = "pick" /\ req'[r].pc = "start") => req'[r].port \notin hist.returned]_vars
\* two calls under way at once have both returned, neither having read a
\* published port off docker ps
C29_Witness ==
    /\ Cardinality(hist.returned) = 2
    /\ \A r \in Requests : req[r].pc = "start" /\ req[r].psPorts = {}

\* C30: the proxy asks for a login exactly when access control is enabled for
\* the site: with basicAuthEnabled = false no request is sent to the login
\* page and none needs a password, with it enabled a request is forwarded
\* only for a session that logged in, and only the site's password logs in
C30_AccessControl ==
    \A c \in Clients :
        /\ proxy.last[c] = "to login" => proxy.enabled
        /\ (proxy.last[c] = "proxied" /\ proxy.enabled) => proxy.session[c]
        /\ proxy.last[c] = "logged in" => (proxy.enabled /\ proxy.posted[c] = Password)

====
